---- MODULE Spec2Model ----
(***************************************************************************)
(* Model of the aispeak-project REST API: token service, authentication    *)
(* gate, authorization predicates, the auth controller (register, login,   *)
(* refresh, logout, user deletion), the progress controller and the two    *)
(* route tables.  One client (a cookie jar plus the access token it holds) *)
(* sends requests; each request is processed to completion (middleware     *)
(* chain, then handler) in one step.  The handlers that make two calls to  *)
(* the data store (register, createProgress, updateProgress) are also      *)
(* modelled call by call, for the interleavings of concurrent requests.    *)
(***************************************************************************)
EXTENDS Integers, Sequences, FiniteSets, TLC

VARIABLES
    env,          \* process.env: the configured secrets (fixed at start-up)
    users,        \* the "users" table of the data store
    nextId,       \* the id the data store gives to the next inserted user
    progress,     \* the "progress" table of the data store
    now,          \* the clock, in seconds
    ticks,        \* number of clock advances taken so far
    jar,          \* the client's cookie jar
    accessToken,  \* the access token the client holds (from the last body that had one)
    req,          \* the last request
    res,          \* the response to the last request
    chain,        \* the middleware and handler invoked for the last request, in order
    storeUp,      \* whether the data store answered during the last request
    kept,         \* the copies of its tokens the client has put aside
    calls         \* the handler calls processed concurrently, each with its position

vars == <<env, users, nextId, progress, now, ticks, jar, accessToken, req, res, chain, storeUp,
          kept, calls>>

----------------------------------------------------------------------------
(* Bounds *)

MaxUsers == 2
MaxTicks == 2
MaxCalls == 3

Emails == {"a@x.com", "b@x.com"}
Passwords == {"p", "q"}
TickSteps == {450}
XpValues == {1}

UserIdParams == {ToString(n) : n \in 1..MaxUsers}

----------------------------------------------------------------------------
(* Program constants *)

AccessTTL == 900
RefreshTTL == 604800
CookieMaxAge == 604800

----------------------------------------------------------------------------
(* Values: an absent value (undefined / null) is <<>>, a present one <<v>> *)

None == <<>>
Some(v) == <<v>>
IsSome(o) == o # <<>>
Val(o) == o[1]

\* A piece of header or cookie text: a plain word (possibly the empty
\* string) or the text of a JSON web token.
Word(s) == [kind |-> "word", text |-> s, jwt |-> None]
JwtText(t) == [kind |-> "jwt", text |-> "", jwt |-> Some(t)]
Falsy(seg) == seg.kind = "word" /\ seg.text = ""

\* obj[f] of a JavaScript object: undefined when the field is absent
Field(obj, f) == IF f \in DOMAIN obj THEN Some(obj[f]) ELSE None

----------------------------------------------------------------------------
(* Token service *)

JWT_SECRET == "access-secret"

REFRESH_SECRET == IF env.REFRESH_SECRET # "" THEN env.REFRESH_SECRET ELSE JWT_SECRET

\* jwt.sign: the payload gets iat and exp, the signature binds key and payload
sign(payload, secret, expiresIn, t) ==
    LET full == payload @@ [iat |-> t, exp |-> t + expiresIn]
    IN [payload |-> full, sig |-> <<secret, full>>]

\* Mutant of verify: the expiry instant is not looked at
verify_ignoringExpiry(seg, secret, t) ==
    IF seg.kind # "jwt" THEN [ok |-> FALSE, decoded |-> None]
    ELSE LET tok == Val(seg.jwt)
         IN IF tok.sig = <<secret, tok.payload>>
            THEN [ok |-> TRUE, decoded |-> Some(tok.payload)]
            ELSE [ok |-> FALSE, decoded |-> None]

\* Mutant of verify: a token is still taken at its expiry instant
verify_atExpiry(seg, secret, t) ==
    IF seg.kind # "jwt" THEN [ok |-> FALSE, decoded |-> None]
    ELSE LET tok == Val(seg.jwt)
         IN IF tok.sig = <<secret, tok.payload>> /\ t <= tok.payload.exp
            THEN [ok |-> TRUE, decoded |-> Some(tok.payload)]
            ELSE [ok |-> FALSE, decoded |-> None]

\* jwt.verify: throws on text that is no token, on a signature that does not
\* match the payload under the secret, and from the expiry instant on
verify(seg, secret, t) ==
    IF seg.kind # "jwt" THEN [ok |-> FALSE, decoded |-> None]
    ELSE LET tok == Val(seg.jwt)
         IN IF tok.sig = <<secret, tok.payload>> /\ t < tok.payload.exp
            THEN [ok |-> TRUE, decoded |-> Some(tok.payload)]
            ELSE [ok |-> FALSE, decoded |-> None]

generateAccessToken(user, t) == sign(user, JWT_SECRET, AccessTTL, t)

generateRefreshToken(user, t) == sign([id |-> user.id], REFRESH_SECRET, RefreshTTL, t)

verifyRefreshToken(seg, t) == verify(seg, REFRESH_SECRET, t)

----------------------------------------------------------------------------
(* Credential verifier *)

hash(password) == <<"bcrypt", 10, password>>
compare(password, hashed) == hashed = hash(password)

----------------------------------------------------------------------------
(* Responses and cookies *)

Body(message) == [message |-> message, accessToken |-> None, user |-> None, data |-> None]

Response(status, message) == [status |-> status, body |-> Body(message), setCookie |-> None]

NoResponse == Response(0, "")

\* Mutant of attachRefreshCookie: the cookie is scoped to the auth routes
attachRefreshCookie_scoped(token) ==
    [name |-> "refreshToken", value |-> JwtText(token), path |-> "/auth",
     httpOnly |-> TRUE, sameSite |-> "strict",
     maxAge |-> Some(CookieMaxAge), expires |-> None]

\* cookie.serialize("refreshToken", value, {httpOnly, sameSite: "strict", maxAge, path: "/"})
attachRefreshCookie(token) ==
    [name |-> "refreshToken", value |-> JwtText(token), path |-> "/",
     httpOnly |-> TRUE, sameSite |-> "strict",
     maxAge |-> Some(CookieMaxAge), expires |-> None]

\* cookie.serialize("refreshToken", "", {httpOnly, sameSite: "strict", expires: new Date(0), path: "/"})
clearRefreshCookie ==
    [name |-> "refreshToken", value |-> Word(""), path |-> "/",
     httpOnly |-> TRUE, sameSite |-> "strict",
     maxAge |-> None, expires |-> Some(0)]

\* The client stores a Set-Cookie over the cookie of the same name and path,
\* and drops that cookie when the new one is already expired.
ApplySetCookie(j, setCookie, t) ==
    IF ~IsSome(setCookie) THEN j
    ELSE LET c == Val(setCookie)
             others == {o \in j : ~(o.name = c.name /\ o.path = c.path)}
         IN IF IsSome(c.expires) /\ Val(c.expires) <= t
            THEN others
            ELSE others \cup {[name |-> c.name, path |-> c.path, value |-> c.value]}

\* The Cookie header the client sends: the values of its cookies by name
CookieHeader(j) == {[name |-> c.name, value |-> c.value] : c \in j}

\* cookie.parse(header).refreshToken
readRefreshCookie(header) ==
    LET vs == {c.value : c \in {d \in header : d.name = "refreshToken"}}
    IN IF vs = {} THEN None ELSE Some(CHOOSE v \in vs : TRUE)

----------------------------------------------------------------------------
(* Data store (supabase) *)

\* The created_at column is filled in by the data store; no code reads it
CreatedAt == "timestamp"

NoParams == [f \in {} |-> ""]
NoBody == [f \in {} |-> None]

\* .single(): the row when the query matched exactly one, an error otherwise
single(rows) ==
    IF Cardinality(rows) = 1
    THEN [data |-> Some(CHOOSE r \in rows : TRUE), error |-> FALSE]
    ELSE [data |-> None, error |-> TRUE]

StoreError == [data |-> None, error |-> TRUE]

\* .select("id, email, is_admin, created_at")
PublicColumns(u) == [id |-> u.id, email |-> u.email, is_admin |-> u.is_admin, created_at |-> u.created_at]

\* What a handler hands back: its response and the tables as it leaves them
Out(response, us, nid, pr) == [res |-> response, users |-> us, nextId |-> nid, progress |-> pr]
Reply(response) == Out(response, users, nextId, progress)

----------------------------------------------------------------------------
(* Authentication gate and authorization predicates *)

Pass(user) == [next |-> TRUE, user |-> user, res |-> NoResponse]
Reject(user, response) == [next |-> FALSE, user |-> user, res |-> response]

authenticate(r) ==
    LET authHeader == r.authorization
    IN IF ~IsSome(authHeader) \/ Val(authHeader) = <<>>
       THEN Reject(r.user, Response(401, "Unauthorized"))
       ELSE LET parts == Val(authHeader)
            IN IF Len(parts) < 2 \/ Falsy(parts[2])
               THEN Reject(r.user, Response(401, "Unauthorized"))
               ELSE LET v == verify(parts[2], JWT_SECRET, now)
                    IN IF v.ok THEN Pass(v.decoded)
                       ELSE Reject(r.user, Response(403, "Invalid token"))

\* Mutant of requireAdmin: any identity will do
requireAdmin_anyIdentity(r) ==
    IF ~IsSome(r.user)
    THEN Reject(r.user, Response(403, "Admin privileges required"))
    ELSE Pass(r.user)

requireAdmin(r) ==
    IF ~(IsSome(r.user) /\ Field(Val(r.user), "is_admin") = Some(TRUE))
    THEN Reject(r.user, Response(403, "Admin privileges required"))
    ELSE Pass(r.user)

\* Mutant of requireOwnerOrAdmin: rejects unless owner and admin
requireOwnerOrAdmin_both(paramName, r) ==
    LET authUser == r.user
        targetId == Field(r.params, paramName)
    IN IF ~IsSome(authUser)
       THEN Reject(r.user, Response(401, "Unauthorized"))
       ELSE IF Field(Val(authUser), "id") # targetId
               \/ Field(Val(authUser), "is_admin") # Some(TRUE)
            THEN Reject(r.user, Response(403, "Access denied"))
            ELSE Pass(r.user)

requireOwnerOrAdmin(paramName, r) ==
    LET authUser == r.user
        targetId == Field(r.params, paramName)
    IN IF ~IsSome(authUser)
       THEN Reject(r.user, Response(401, "Unauthorized"))
       ELSE IF Field(Val(authUser), "id") # targetId
               /\ Field(Val(authUser), "is_admin") # Some(TRUE)
            THEN Reject(r.user, Response(403, "Access denied"))
            ELSE Pass(r.user)

----------------------------------------------------------------------------
(* Auth controller *)

\* Mutant of register: the email is not looked up first
register_withoutLookup(r, up) ==
    LET email == r.body.email
        password == r.body.password
        is_admin == r.body.is_admin
    IN IF email = "" \/ password = ""
       THEN Reply(Response(400, "Email and password are required"))
       ELSE LET newUser == [email |-> email, password |-> hash(password),
                            is_admin |-> IF IsSome(is_admin) THEN Val(is_admin) ELSE FALSE]
                data == newUser @@ [id |-> ToString(nextId), created_at |-> CreatedAt]
            IN IF ~up
               THEN Reply(Response(500, "Error creating user"))
               ELSE Out([status |-> 201,
                         body |-> [Body("User created successfully")
                                      EXCEPT !.accessToken = Some(generateAccessToken(data, now))],
                         setCookie |-> Some(attachRefreshCookie(
                                               generateRefreshToken([id |-> data.id], now)))],
                        users \cup {data}, nextId + 1, progress)

register(r, up) ==
    LET email == r.body.email
        password == r.body.password
        is_admin == r.body.is_admin
    IN IF email = "" \/ password = ""
       THEN Reply(Response(400, "Email and password are required"))
       ELSE LET existing == IF up THEN single({u \in users : u.email = email}) ELSE StoreError
            IN IF IsSome(existing.data)
               THEN Reply(Response(409, "User already exists"))
               ELSE LET hashedPassword == hash(password)
                        newUser == [email |-> email, password |-> hashedPassword,
                                    is_admin |-> IF IsSome(is_admin) THEN Val(is_admin) ELSE FALSE]
                        data == newUser @@ [id |-> ToString(nextId), created_at |-> CreatedAt]
                    IN IF ~up
                       THEN Reply(Response(500, "Error creating user"))
                       ELSE LET access == generateAccessToken(data, now)
                                refresh == generateRefreshToken([id |-> data.id], now)
                            IN Out([status |-> 201,
                                    body |-> [Body("User created successfully")
                                                 EXCEPT !.accessToken = Some(access)],
                                    setCookie |-> Some(attachRefreshCookie(refresh))],
                                   users \cup {data}, nextId + 1, progress)

\* Mutant of login: a wrong password gets a message of its own
login_tellingWhy(r, up) ==
    LET email == r.body.email
        password == r.body.password
    IN IF email = "" \/ password = ""
       THEN Reply(Response(400, "Email and password are required"))
       ELSE LET q == IF up THEN single({u \in users : u.email = email}) ELSE StoreError
            IN IF q.error \/ ~IsSome(q.data)
               THEN Reply(Response(401, "Invalid email or password"))
               ELSE LET user == Val(q.data)
                    IN IF ~compare(password, user.password)
                       THEN Reply(Response(401, "Invalid password"))
                       ELSE LET identity == [id |-> user.id, email |-> user.email,
                                             is_admin |-> user.is_admin]
                            IN Reply([status |-> 200,
                                      body |-> [Body("Login successful")
                                                   EXCEPT !.accessToken = Some(generateAccessToken(identity, now)),
                                                          !.user = Some(identity)],
                                      setCookie |-> Some(attachRefreshCookie(
                                                            generateRefreshToken([id |-> user.id], now)))])

login(r, up) ==
    LET email == r.body.email
        password == r.body.password
    IN IF email = "" \/ password = ""
       THEN Reply(Response(400, "Email and password are required"))
       ELSE LET q == IF up THEN single({u \in users : u.email = email}) ELSE StoreError
            IN IF q.error \/ ~IsSome(q.data)
               THEN Reply(Response(401, "Invalid email or password"))
               ELSE LET user == Val(q.data)
                        isPasswordValid == compare(password, user.password)
                    IN IF ~isPasswordValid
                       THEN Reply(Response(401, "Invalid email or password"))
                       ELSE LET identity == [id |-> user.id, email |-> user.email,
                                             is_admin |-> user.is_admin]
                                access == generateAccessToken(identity, now)
                                refresh == generateRefreshToken([id |-> user.id], now)
                            IN Reply([status |-> 200,
                                      body |-> [Body("Login successful")
                                                   EXCEPT !.accessToken = Some(access),
                                                          !.user = Some(identity)],
                                      setCookie |-> Some(attachRefreshCookie(refresh))])

\* The handler reads req.params.id, while the route declares :userId
deleteUser(r, up) ==
    LET userId == Field(r.params, "id")
        matched == {u \in users : Some(u.id) = userId}
        q == IF up THEN single(matched) ELSE StoreError
    IN IF q.error
       THEN Out(Response(500, "Error deleting user"),
                IF up THEN users \ matched ELSE users, nextId, progress)
       ELSE Out([Response(200, "User deleted successfully") EXCEPT !.body.user = q.data],
                users \ matched, nextId, progress)

\* Mutant of logout: the identity that logs out is removed from the store
logout_revoking(r, up) ==
    Out([Response(200, "Logged out successfully") EXCEPT !.setCookie = Some(clearRefreshCookie)],
        {u \in users : ~(IsSome(r.user) /\ Field(Val(r.user), "id") = Some(u.id))},
        nextId, progress)

logout(r, up) ==
    Reply([Response(200, "Logged out successfully") EXCEPT !.setCookie = Some(clearRefreshCookie)])

\* Mutant of refreshToken: the new token repeats the claims the request came with
refreshToken_trustingClaims(r, up) ==
    LET token == readRefreshCookie(r.cookie)
    IN IF ~IsSome(token) \/ Falsy(Val(token))
       THEN Reply(Response(401, "No refresh token provided"))
       ELSE LET v == verifyRefreshToken(Val(token), now)
            IN IF ~v.ok
               THEN Reply(Response(403, "Invalid refresh token"))
               ELSE LET old == Val(r.user)
                        claims == [f \in DOMAIN old \ {"iat", "exp"} |-> old[f]]
                    IN Reply([Response(200, "")
                                 EXCEPT !.body.accessToken = Some(generateAccessToken(claims, now))])

refreshToken(r, up) ==
    LET token == readRefreshCookie(r.cookie)
    IN IF ~IsSome(token) \/ Falsy(Val(token))
       THEN Reply(Response(401, "No refresh token provided"))
       ELSE LET v == verifyRefreshToken(Val(token), now)
            IN IF ~v.ok
               THEN Reply(Response(403, "Invalid refresh token"))
               ELSE LET payload == Val(v.decoded)
                        q == IF up THEN single({u \in users : u.id = payload.id}) ELSE StoreError
                    IN IF q.error \/ ~IsSome(q.data)
                       THEN Reply(Response(401, "Invalid refresh token"))
                       ELSE LET access == generateAccessToken(Val(q.data), now)
                            IN Reply([Response(200, "") EXCEPT !.body.accessToken = Some(access)])

getUsers(r, up) ==
    IF ~up
    THEN Reply(Response(500, "Error fetching users"))
    ELSE Reply([Response(200, "") EXCEPT !.body.data = Some({PublicColumns(u) : u \in users})])

getUser(r, up) ==
    LET userId == Field(r.params, "userId")
        q == IF up THEN single({PublicColumns(u) : u \in {w \in users : Some(w.id) = userId}})
             ELSE StoreError
    IN IF q.error \/ ~IsSome(q.data)
       THEN Reply(Response(404, "User not found"))
       ELSE Reply([Response(200, "") EXCEPT !.body.data = q.data])

deleteCurrentUser(r, up) ==
    IF ~(IsSome(r.user) /\ IsSome(Field(Val(r.user), "id")))
    THEN Reply(Response(401, "Unauthorized"))
    ELSE LET id == Val(r.user).id
             matched == {u \in users : u.id = id}
             q == IF up THEN single(matched) ELSE StoreError
         IN IF q.error
            THEN Out(Response(500, "Error deleting user"),
                     IF up THEN users \ matched ELSE users, nextId, progress)
            ELSE Out([Response(200, "User deleted successfully") EXCEPT !.body.user = q.data],
                     users \ matched, nextId, progress)

----------------------------------------------------------------------------
(* Progress controller *)

ProgressFields == <<"current_level", "level_xp", "streak", "xp">>

\* A body field is Some(n) for the number n and None for a value that is not a number
NumberOr0(body, f) == IF f \in DOMAIN body THEN body[f] ELSE Some(0)

getProgress(r, up) ==
    LET userId == Field(r.params, "userId")
        q == IF up THEN single({p \in progress : Some(p.user_id) = userId}) ELSE StoreError
    IN IF q.error \/ ~IsSome(q.data)
       THEN Reply(Response(404, "Progress not found"))
       ELSE Reply([Response(200, "") EXCEPT !.body.data = q.data])

createProgress(r, up) ==
    LET userId == Val(Field(r.params, "userId"))
        existing == IF up THEN single({p \in progress : p.user_id = userId}) ELSE StoreError
        current_level == NumberOr0(r.body, "current_level")
        level_xp == NumberOr0(r.body, "level_xp")
        streak == NumberOr0(r.body, "streak")
        xp == NumberOr0(r.body, "xp")
    IN IF ~existing.error /\ IsSome(existing.data)
       THEN Reply(Response(409, "Progress already exists. Use PUT to update."))
       ELSE IF ~IsSome(current_level) \/ ~IsSome(level_xp) \/ ~IsSome(streak) \/ ~IsSome(xp)
            THEN Reply(Response(400, "Invalid or missing fields. Provide numeric current_level, level_xp, streak, xp."))
            ELSE IF ~up
                 THEN Reply(Response(500, "Error creating progress."))
                 ELSE LET vectorArr == <<Val(current_level), Val(level_xp), Val(streak), Val(xp)>>
                          row == [user_id |-> userId,
                                  current_level |-> Val(current_level),
                                  level_xp |-> Val(level_xp),
                                  streak |-> Val(streak),
                                  xp |-> Val(xp),
                                  progress_vector |-> vectorArr]
                      IN Out([Response(201, "Progress created successfully.")
                                 EXCEPT !.body.data = Some(row)],
                             users, nextId, progress \cup {row})

\* The first store update of updateProgress: the scalar fields
UpdateScalars(p, body) ==
    [f \in DOMAIN p |-> IF f \in DOMAIN body THEN Val(body[f]) ELSE p[f]]

\* The second store update of updateProgress: the vector
UpdateVector(p, vectorArr) == [p EXCEPT !.progress_vector = vectorArr]

updateProgress(r, up) ==
    LET userId == Val(Field(r.params, "userId"))
        present == {i \in 1..Len(ProgressFields) : ProgressFields[i] \in DOMAIN r.body}
        bad == {i \in present : ~IsSome(r.body[ProgressFields[i]])}
    IN IF bad # {}
       THEN Reply(Response(400, "Invalid type; must be a number."))
       ELSE IF present = {}
            THEN Reply(Response(400, "No valid fields to update. Provide at least one of current_level, level_xp, streak, xp."))
            ELSE LET matched == {p \in progress : p.user_id = userId}
                     updated == {UpdateScalars(p, r.body) : p \in matched}
                     q == IF up THEN single(updated) ELSE StoreError
                 IN IF q.error \/ ~IsSome(q.data)
                    THEN Out(Response(404, "Progress not found or update failed."),
                             users, nextId,
                             IF up THEN (progress \ matched) \cup updated ELSE progress)
                    ELSE LET data == Val(q.data)
                             vectorArr == <<data.current_level, data.level_xp, data.streak, data.xp>>
                         IN Out([Response(200, "Progress updated successfully.")
                                    EXCEPT !.body.data = q.data],
                                users, nextId,
                                (progress \ matched) \cup {UpdateVector(p, vectorArr) : p \in updated})

deleteProgress(r, up) ==
    LET userId == Val(Field(r.params, "userId"))
    IN IF ~up
       THEN Reply(Response(404, "Progress not found or deletion failed."))
       ELSE Out(Response(200, "Progress deleted successfully."),
                users, nextId, {p \in progress : p.user_id # userId})

\* The rows the similarity procedure returns are the data store's business
getSimilarProgress(r, up) ==
    LET userId == Field(r.params, "userId")
        q == IF up THEN single({p \in progress : Some(p.user_id) = userId}) ELSE StoreError
    IN IF q.error \/ ~IsSome(q.data)
       THEN Reply(Response(404, "Progress or progress_vector not found for this user"))
       ELSE Reply(Response(200, ""))

----------------------------------------------------------------------------
(* The client's requests *)

\* A token whose payload was edited after signing
Tamper(t) ==
    [t EXCEPT !.payload = [is_admin |-> IF "is_admin" \in DOMAIN t.payload
                                        THEN ~t.payload.is_admin ELSE TRUE] @@ t.payload]

\* A token signed by somebody who does not know the server's secrets
Forged == sign([id |-> "1", email |-> "a@x.com", is_admin |-> TRUE], "guessed-secret", AccessTTL, now)

HeldTokens ==
    {Val(accessToken) : x \in {y \in {1} : IsSome(accessToken)}}
        \cup {Val(c.value.jwt) : c \in {d \in jar : d.value.kind = "jwt"}}

BearerTokens ==
    HeldTokens \cup {Tamper(Val(accessToken)) : x \in {y \in {1} : IsSome(accessToken)}}
        \cup {Forged}

\* No header, "Bearer", "Bearer not-a-token", and "Bearer <token>"
AuthHeaders ==
    {None, Some(<<Word("Bearer")>>), Some(<<Word("Bearer"), Word("not-a-token")>>)}
        \cup {Some(<<Word("Bearer"), JwtText(t)>>) : t \in BearerTokens}

\* Everybody registers with the same password; a login may try another
RegisterBodies ==
    [email : Emails, password : {"p"}, is_admin : {None, Some(TRUE), Some(FALSE)}]
        \cup {[email |-> "", password |-> "p", is_admin |-> None],
              [email |-> "a@x.com", password |-> "", is_admin |-> None]}

LoginBodies ==
    [email : Emails, password : Passwords]
        \cup {[email |-> "", password |-> "p"], [email |-> "a@x.com", password |-> ""]}

ProgressBodies ==
    {NoBody, [xp |-> None]} \cup {[xp |-> Some(x)] : x \in XpValues}

UserIdParam == {[userId |-> id] : id \in UserIdParams}

Request(method, route, authorization, params, body) ==
    [method |-> method, route |-> route, authorization |-> authorization,
     cookie |-> CookieHeader(jar), params |-> params, body |-> body, user |-> None]

NoRequest ==
    [method |-> "", route |-> "", authorization |-> None,
     cookie |-> {}, params |-> NoParams, body |-> NoBody, user |-> None]

\* The handler a route ends in
Handle(name, r, up) ==
    CASE name = "register" -> register(r, up)
      [] name = "login" -> login(r, up)
      [] name = "getUser" -> getUser(r, up)
      [] name = "refreshToken" -> refreshToken(r, up)
      [] name = "getUsers" -> getUsers(r, up)
      [] name = "deleteUser" -> deleteUser(r, up)
      [] name = "deleteCurrentUser" -> deleteCurrentUser(r, up)
      [] name = "logout" -> logout(r, up)
      [] name = "getProgress" -> getProgress(r, up)
      [] name = "createProgress" -> createProgress(r, up)
      [] name = "updateProgress" -> updateProgress(r, up)
      [] name = "deleteProgress" -> deleteProgress(r, up)
      [] name = "getSimilarProgress" -> getSimilarProgress(r, up)

\* The chain of one route: the gate (for the routes declared after
\* router.use(authenticate)), the route's predicate, then its handler.
\* The request is recorded as far as the chain got to read it: the gate
\* reads the Authorization header only, requireOwnerOrAdmin the path
\* parameters too, and only a handler reads the body and the data store.
Run(name, r, gated, pred, up) ==
    LET g == IF gated THEN authenticate(r) ELSE Pass(r.user)
        c1 == IF gated THEN <<"authenticate">> ELSE <<>>
    IN IF ~g.next
       THEN [chain |-> c1, req |-> [r EXCEPT !.params = NoParams, !.body = NoBody],
             out |-> Reply(g.res), up |-> TRUE]
       ELSE LET r1 == [r EXCEPT !.user = g.user]
                p == CASE pred = "requireAdmin" -> requireAdmin(r1)
                       [] pred = "requireOwnerOrAdmin" -> requireOwnerOrAdmin("userId", r1)
                       [] OTHER -> Pass(r1.user)
                c2 == IF pred = "" THEN c1 ELSE Append(c1, pred)
            IN IF ~p.next
               THEN [chain |-> c2,
                     req |-> [r1 EXCEPT !.params = IF pred = "requireAdmin" THEN NoParams ELSE @,
                                        !.body = NoBody],
                     out |-> Reply(p.res), up |-> TRUE]
               ELSE [chain |-> Append(c2, name), req |-> r1, out |-> Handle(name, r1, up),
                     up |-> up]

Idle == chain = <<>> /\ res = NoResponse

Serve(run) ==
    /\ Idle
    /\ run.out.nextId <= MaxUsers + 1
    /\ req' = run.req
    /\ res' = run.out.res
    /\ chain' = run.chain
    /\ users' = run.out.users
    /\ nextId' = run.out.nextId
    /\ progress' = run.out.progress
    /\ jar' = ApplySetCookie(jar, run.out.res.setCookie, now)
    /\ accessToken' = IF IsSome(run.out.res.body.accessToken)
                      THEN run.out.res.body.accessToken ELSE accessToken
    /\ storeUp' = run.up
    /\ UNCHANGED <<env, now, ticks, kept, calls>>

PostRegister ==
    \E b \in RegisterBodies, up \in BOOLEAN :
        Serve(Run("register", Request("POST", "/auth/register", None, NoParams, b),
                  FALSE, "", up))

PostLogin ==
    \E b \in LoginBodies, up \in BOOLEAN :
        Serve(Run("login", Request("POST", "/auth/login", None, NoParams, b),
                  FALSE, "", up))

GetUser ==
    \E h \in AuthHeaders, p \in UserIdParam, up \in BOOLEAN :
        Serve(Run("getUser", Request("GET", "/auth/user/:userId", h, p, NoBody),
                  TRUE, "requireOwnerOrAdmin", up))

GetRefreshToken ==
    \E h \in AuthHeaders, up \in BOOLEAN :
        Serve(Run("refreshToken", Request("GET", "/auth/refresh-token", h, NoParams, NoBody),
                  TRUE, "", up))

GetUsers ==
    \E h \in AuthHeaders, up \in BOOLEAN :
        Serve(Run("getUsers", Request("GET", "/auth/users", h, NoParams, NoBody),
                  TRUE, "requireAdmin", up))

DeleteUserById ==
    \E h \in AuthHeaders, p \in UserIdParam, up \in BOOLEAN :
        Serve(Run("deleteUser", Request("DELETE", "/auth/user/:userId", h, p, NoBody),
                  TRUE, "requireAdmin", up))

DeleteUser ==
    \E h \in AuthHeaders, up \in BOOLEAN :
        Serve(Run("deleteCurrentUser", Request("DELETE", "/auth/user", h, NoParams, NoBody),
                  TRUE, "", up))

PostLogout ==
    \E h \in AuthHeaders :
        Serve(Run("logout", Request("POST", "/auth/logout", h, NoParams, NoBody),
                  TRUE, "", TRUE))

GetProgress ==
    \E h \in AuthHeaders, p \in UserIdParam, up \in BOOLEAN :
        Serve(Run("getProgress", Request("GET", "/progress/:userId", h, p, NoBody),
                  TRUE, "requireOwnerOrAdmin", up))

PostProgress ==
    \E h \in AuthHeaders, p \in UserIdParam, b \in ProgressBodies, up \in BOOLEAN :
        Serve(Run("createProgress", Request("POST", "/progress/:userId", h, p, b),
                  TRUE, "requireOwnerOrAdmin", up))

PutProgress ==
    \E h \in AuthHeaders, p \in UserIdParam, b \in ProgressBodies, up \in BOOLEAN :
        Serve(Run("updateProgress", Request("PUT", "/progress/:userId", h, p, b),
                  TRUE, "requireAdmin", up))

DeleteProgress ==
    \E h \in AuthHeaders, p \in UserIdParam, up \in BOOLEAN :
        Serve(Run("deleteProgress", Request("DELETE", "/progress/:userId", h, p, NoBody),
                  TRUE, "requireAdmin", up))

GetSimilarProgress ==
    \E h \in AuthHeaders, p \in UserIdParam, up \in BOOLEAN :
        Serve(Run("getSimilarProgress", Request("GET", "/progress/similar/:userId", h, p, NoBody),
                  TRUE, "requireOwnerOrAdmin", up))

\* The predicates applied on their own, as a route table that mounts them
\* without the gate would: the identity on the request is whatever it is
Identities ==
    {None}
        \cup {Some([id |-> i, email |-> "a@x.com", is_admin |-> a]) :
                 i \in UserIdParams, a \in BOOLEAN}
        \cup {Some([id |-> i]) : i \in UserIdParams}

Apply(name, r, p) ==
    /\ Idle
    /\ req' = r
    /\ res' = p.res
    /\ chain' = IF p.next THEN <<name, "next">> ELSE <<name>>
    /\ UNCHANGED <<env, users, nextId, progress, now, ticks, jar, accessToken, storeUp, kept, calls>>

CallRequireOwnerOrAdmin ==
    \E u \in Identities, p \in UserIdParam \cup {NoParams}, paramName \in {"userId", "id"} :
        LET r == [Request("GET", "/direct/:" \o paramName, None, p, NoBody) EXCEPT !.user = u]
        IN Apply("requireOwnerOrAdmin", r, requireOwnerOrAdmin(paramName, r))

CallRequireAdmin ==
    \E u \in Identities :
        LET r == [Request("GET", "/direct", None, NoParams, NoBody) EXCEPT !.user = u]
        IN Apply("requireAdmin", r, requireAdmin(r))

\* The exchange is over: the client is ready for its next request
Done ==
    /\ ~Idle
    /\ req' = NoRequest
    /\ res' = NoResponse
    /\ chain' = <<>>
    /\ storeUp' = TRUE
    /\ UNCHANGED <<env, users, nextId, progress, now, ticks, jar, accessToken, kept, calls>>

----------------------------------------------------------------------------
(* The environment *)

\* Time passes
Tick ==
    \E d \in TickSteps :
        /\ Idle
        /\ ticks < MaxTicks
        /\ now' = now + d
        /\ ticks' = ticks + 1
        /\ UNCHANGED <<env, users, nextId, progress, jar, accessToken, req, res, chain, storeUp,
                       kept, calls>>

\* The role of a stored identity is changed in the data store, outside this API
StoreSetAdmin ==
    \E u \in users, b \in BOOLEAN :
        /\ Idle
        /\ u.is_admin # b
        /\ users' = (users \ {u}) \cup {[u EXCEPT !.is_admin = b]}
        /\ UNCHANGED <<env, nextId, progress, now, ticks, jar, accessToken, req, res, chain, storeUp,
                       kept, calls>>

\* The instants at which a session is looked at: the issue of a token, and
\* the second before and the second of the expiry of an access token and of
\* a refresh token issued then
Instants == {0, AccessTTL - 1, AccessTTL, RefreshTTL - 1, RefreshTTL}

\* Time passes to the next of these instants
Advance ==
    /\ Idle
    /\ \E i \in Instants : i > now
    /\ now' = CHOOSE i \in Instants : i > now /\ \A j \in Instants : j > now => i <= j
    /\ UNCHANGED <<env, users, nextId, progress, ticks, jar, accessToken, req, res, chain, storeUp,
                   kept, calls>>

----------------------------------------------------------------------------
(* A client that keeps copies of its tokens *)

\* The client (or whoever got hold of its tokens) puts aside a copy of the
\* access token and of the refresh cookie it holds
KeepTokens ==
    /\ Idle
    /\ kept = {}
    /\ IsSome(accessToken)
    /\ jar # {}
    /\ kept' = HeldTokens
    /\ UNCHANGED <<env, users, nextId, progress, now, ticks, jar, accessToken, req, res, chain,
                   storeUp, calls>>

\* The tokens that can be presented as bearer token: the copies, and the
\* access token held
ReplayBearers == kept \cup {Val(accessToken) : x \in {y \in {1} : IsSome(accessToken)}}

\* GET /auth/refresh-token with a Cookie header written from a copy instead
\* of the jar
ReplayRefreshToken ==
    \E a \in ReplayBearers, c \in kept, up \in BOOLEAN :
        Serve(Run("refreshToken",
                  [Request("GET", "/auth/refresh-token", Some(<<Word("Bearer"), JwtText(a)>>),
                           NoParams, NoBody)
                      EXCEPT !.cookie = {[name |-> "refreshToken", value |-> JwtText(c)]}],
                  TRUE, "", up))

----------------------------------------------------------------------------
(* Handlers processed concurrently: a handler runs up to an await on the    *)
(* data store, and other calls run before it resumes                        *)

\* register up to the answer of the lookup by email
registerLookup(r, up) ==
    LET email == r.body.email
        password == r.body.password
    IN IF email = "" \/ password = ""
       THEN [next |-> FALSE, res |-> Response(400, "Email and password are required")]
       ELSE LET existing == IF up THEN single({u \in users : u.email = email}) ELSE StoreError
            IN IF IsSome(existing.data)
               THEN [next |-> FALSE, res |-> Response(409, "User already exists")]
               ELSE [next |-> TRUE, res |-> NoResponse]

\* register from the insert on; a store that refuses the row answers with an error
registerInsert(r, up) ==
    LET is_admin == r.body.is_admin
        newUser == [email |-> r.body.email, password |-> hash(r.body.password),
                    is_admin |-> IF IsSome(is_admin) THEN Val(is_admin) ELSE FALSE]
        data == newUser @@ [id |-> ToString(nextId), created_at |-> CreatedAt]
    IN IF ~up
       THEN Reply(Response(500, "Error creating user"))
       ELSE Out([status |-> 201,
                 body |-> [Body("User created successfully")
                              EXCEPT !.accessToken = Some(generateAccessToken(data, now))],
                 setCookie |-> Some(attachRefreshCookie(
                                       generateRefreshToken([id |-> data.id], now)))],
                users \cup {data}, nextId + 1, progress)

\* createProgress up to the answer of the lookup by user_id, and the check of the body
createProgressLookup(r, up) ==
    LET userId == Val(Field(r.params, "userId"))
        existing == IF up THEN single({p \in progress : p.user_id = userId}) ELSE StoreError
        current_level == NumberOr0(r.body, "current_level")
        level_xp == NumberOr0(r.body, "level_xp")
        streak == NumberOr0(r.body, "streak")
        xp == NumberOr0(r.body, "xp")
    IN IF ~existing.error /\ IsSome(existing.data)
       THEN [next |-> FALSE, res |-> Response(409, "Progress already exists. Use PUT to update.")]
       ELSE IF ~IsSome(current_level) \/ ~IsSome(level_xp) \/ ~IsSome(streak) \/ ~IsSome(xp)
            THEN [next |-> FALSE,
                  res |-> Response(400, "Invalid or missing fields. Provide numeric current_level, level_xp, streak, xp.")]
            ELSE [next |-> TRUE, res |-> NoResponse]

\* createProgress from the insert on: the scalar fields and the vector in one row
createProgressInsert(r, up) ==
    LET userId == Val(Field(r.params, "userId"))
        current_level == Val(NumberOr0(r.body, "current_level"))
        level_xp == Val(NumberOr0(r.body, "level_xp"))
        streak == Val(NumberOr0(r.body, "streak"))
        xp == Val(NumberOr0(r.body, "xp"))
        vectorArr == <<current_level, level_xp, streak, xp>>
        row == [user_id |-> userId, current_level |-> current_level, level_xp |-> level_xp,
                streak |-> streak, xp |-> xp, progress_vector |-> vectorArr]
    IN IF ~up
       THEN Reply(Response(500, "Error creating progress."))
       ELSE Out([Response(201, "Progress created successfully.") EXCEPT !.body.data = Some(row)],
                users, nextId, progress \cup {row})

\* updateProgress up to the answer of its first store update (the scalar fields)
updateProgressScalars(r, up) ==
    LET userId == Val(Field(r.params, "userId"))
        present == {i \in 1..Len(ProgressFields) : ProgressFields[i] \in DOMAIN r.body}
        bad == {i \in present : ~IsSome(r.body[ProgressFields[i]])}
        stop(response, pr) == [next |-> FALSE, data |-> None, out |-> Out(response, users, nextId, pr)]
    IN IF bad # {}
       THEN stop(Response(400, "Invalid type; must be a number."), progress)
       ELSE IF present = {}
            THEN stop(Response(400, "No valid fields to update. Provide at least one of current_level, level_xp, streak, xp."),
                      progress)
            ELSE LET matched == {p \in progress : p.user_id = userId}
                     updated == {UpdateScalars(p, r.body) : p \in matched}
                     q == IF up THEN single(updated) ELSE StoreError
                 IN IF q.error \/ ~IsSome(q.data)
                    THEN stop(Response(404, "Progress not found or update failed."),
                              IF up THEN (progress \ matched) \cup updated ELSE progress)
                    ELSE [next |-> TRUE, data |-> q.data,
                          out |-> Out(NoResponse, users, nextId, (progress \ matched) \cup updated)]

\* updateProgress from its second store update (the vector) on; a failure of
\* that update is logged and the answer is 200 all the same
updateProgressVector(r, data, up) ==
    LET userId == Val(Field(r.params, "userId"))
        vectorArr == <<data.current_level, data.level_xp, data.streak, data.xp>>
        matched == {p \in progress : p.user_id = userId}
    IN Out([Response(200, "Progress updated successfully.") EXCEPT !.body.data = Some(data)],
           users, nextId,
           IF up THEN (progress \ matched) \cup {UpdateVector(p, vectorArr) : p \in matched}
           ELSE progress)

\* The bodies of concurrent updates: one field or another
UpdateBodies == ProgressBodies \cup {[streak |-> Some(x)] : x \in XpValues}

\* A call that the middleware of its route has let through: the handler
\* it runs, where it stands (at a store call yet to be made, or "done"),
\* what it read, whether the store answered it so far, and its response
Call(handler, at, r, data, up, response) ==
    [n |-> Cardinality(calls) + 1, handler |-> handler, at |-> at,
     params |-> r.params, body |-> r.body, data |-> data, up |-> up, res |-> response]

Resume(c, at, up, response) ==
    (calls \ {c}) \cup {[c EXCEPT !.at = at, !.up = c.up /\ up, !.res = response]}

CallRequest(c) == [NoRequest EXCEPT !.params = c.params, !.body = c.body]

RegisterLookup ==
    \E b \in RegisterBodies, up \in BOOLEAN :
        LET r == Request("POST", "/auth/register", None, NoParams, b)
            l == registerLookup(r, up)
        IN /\ Cardinality(calls) < MaxCalls
           /\ calls' = calls \cup {Call("register", IF l.next THEN "insert" ELSE "done",
                                         r, None, up, l.res)}
           /\ UNCHANGED <<env, users, nextId, progress, now, ticks, jar, accessToken, req, res,
                          chain, storeUp, kept>>

RegisterInsert ==
    \E c \in calls, up \in BOOLEAN :
        LET out == registerInsert(CallRequest(c), up)
        IN /\ c.handler = "register"
           /\ c.at = "insert"
           /\ out.nextId <= MaxUsers + 1
           /\ calls' = Resume(c, "done", up, out.res)
           /\ users' = out.users
           /\ nextId' = out.nextId
           /\ UNCHANGED <<env, progress, now, ticks, jar, accessToken, req, res, chain, storeUp,
                          kept>>

CreateProgressLookup ==
    \E p \in UserIdParam, b \in ProgressBodies, up \in BOOLEAN :
        LET r == Request("POST", "/progress/:userId", None, p, b)
            l == createProgressLookup(r, up)
        IN /\ Cardinality(calls) < MaxCalls
           /\ calls' = calls \cup {Call("createProgress", IF l.next THEN "insert" ELSE "done",
                                         r, None, up, l.res)}
           /\ UNCHANGED <<env, users, nextId, progress, now, ticks, jar, accessToken, req, res,
                          chain, storeUp, kept>>

CreateProgressInsert ==
    \E c \in calls, up \in BOOLEAN :
        LET out == createProgressInsert(CallRequest(c), up)
        IN /\ c.handler = "createProgress"
           /\ c.at = "insert"
           /\ calls' = Resume(c, "done", up, out.res)
           /\ progress' = out.progress
           /\ UNCHANGED <<env, users, nextId, now, ticks, jar, accessToken, req, res, chain,
                          storeUp, kept>>

UpdateProgressScalars ==
    \E p \in UserIdParam, b \in UpdateBodies, up \in BOOLEAN :
        LET r == Request("PUT", "/progress/:userId", None, p, b)
            l == updateProgressScalars(r, up)
        IN /\ Cardinality(calls) < MaxCalls
           /\ calls' = calls \cup {Call("updateProgress", IF l.next THEN "vector" ELSE "done",
                                         r, l.data, up, l.out.res)}
           /\ progress' = l.out.progress
           /\ UNCHANGED <<env, users, nextId, now, ticks, jar, accessToken, req, res, chain,
                          storeUp, kept>>

UpdateProgressVector ==
    \E c \in calls, up \in BOOLEAN :
        LET out == updateProgressVector(CallRequest(c), Val(c.data), up)
        IN /\ c.handler = "updateProgress"
           /\ c.at = "vector"
           /\ calls' = Resume(c, "done", up, out.res)
           /\ progress' = out.progress
           /\ UNCHANGED <<env, users, nextId, now, ticks, jar, accessToken, req, res, chain,
                          storeUp, kept>>

----------------------------------------------------------------------------
(* Specification *)

Init ==
    /\ env \in {[REFRESH_SECRET |-> ""], [REFRESH_SECRET |-> "refresh-secret"]}
    /\ users = {}
    /\ nextId = 1
    /\ progress = {}
    /\ now = 0
    /\ ticks = 0
    /\ jar = {}
    /\ accessToken = None
    /\ req = NoRequest
    /\ res = NoResponse
    /\ chain = <<>>
    /\ storeUp = TRUE
    /\ kept = {}
    /\ calls = {}

\* The session: the public routes and the routes behind the gate alone, with
\* time passing and roles changing between requests
Next ==
    \/ PostRegister
    \/ PostLogin
    \/ GetRefreshToken
    \/ DeleteUser
    \/ PostLogout
    \/ Done
    \/ Tick
    \/ StoreSetAdmin

Spec == Init /\ [][Next]_vars

\* The routes that carry an authorization predicate, in both route tables,
\* within the lifetime of the tokens
NextRoutes ==
    \/ PostRegister
    \/ PostLogin
    \/ GetUser
    \/ GetUsers
    \/ DeleteUserById
    \/ GetProgress
    \/ PostProgress
    \/ PutProgress
    \/ DeleteProgress
    \/ GetSimilarProgress
    \/ Done

SpecRoutes == Init /\ [][NextRoutes]_vars

\* The same routes, and the predicates applied on their own
NextGuards ==
    \/ NextRoutes
    \/ CallRequireOwnerOrAdmin
    \/ CallRequireAdmin

SpecGuards == Init /\ [][NextGuards]_vars

\* The session of a client that keeps copies of its tokens and presents them
\* again, over the lifetime of a refresh token
NextReplay ==
    \/ PostRegister
    \/ PostLogin
    \/ PostLogout
    \/ KeepTokens
    \/ ReplayRefreshToken
    \/ Advance
    \/ Done

SpecReplay == Init /\ [][NextReplay]_vars

\* Register calls processed concurrently
NextRegisterCalls ==
    \/ RegisterLookup
    \/ RegisterInsert

SpecRegisterCalls == Init /\ [][NextRegisterCalls]_vars

\* createProgress and updateProgress calls processed concurrently
NextProgressCalls ==
    \/ CreateProgressLookup
    \/ CreateProgressInsert
    \/ UpdateProgressScalars
    \/ UpdateProgressVector

SpecProgressCalls == Init /\ [][NextProgressCalls]_vars

----------------------------------------------------------------------------
(* Properties *)

Last(s) == s[Len(s)]
Handler == IF chain = <<>> THEN "" ELSE Last(chain)
Invoked(name) == \E i \in 1..Len(chain) : chain[i] = name
Position(name) == CHOOSE i \in 1..Len(chain) : chain[i] = name

\* The token segment of the Authorization header: what follows the first space
Bearer(r) ==
    IF IsSome(r.authorization) /\ Len(Val(r.authorization)) >= 2
    THEN Some(Val(r.authorization)[2]) ELSE None

\* A token signed with the given secret over the payload it carries, not yet expired
Genuine(seg, secret) ==
    /\ seg.kind = "jwt"
    /\ Val(seg.jwt).sig = <<secret, Val(seg.jwt).payload>>
    /\ now < Val(seg.jwt).payload.exp

\* The refresh cookie of the last request
Cookie(r) == {c.value : c \in {d \in r.cookie : d.name = "refreshToken"}}

\* C1: a request through the gate without a header or without a token
\* segment is answered 401, one whose token fails verification under the
\* access secret 403; in both cases nothing after the gate runs and no
\* identity is attached; a later step runs only with the verified claims
\* of the token attached.
C1_GateRejectsOrAttaches ==
    Invoked("authenticate") =>
        LET seg == Bearer(req)
            missing == ~IsSome(seg) \/ Falsy(Val(seg))
        IN /\ missing =>
                 res.status = 401 /\ chain = <<"authenticate">> /\ req.user = None
           /\ (~missing /\ ~Genuine(Val(seg), JWT_SECRET)) =>
                 res.status = 403 /\ chain = <<"authenticate">> /\ req.user = None
           /\ (Len(chain) > 1 \/ IsSome(req.user)) =>
                 /\ ~missing
                 /\ Genuine(Val(seg), JWT_SECRET)
                 /\ req.user = Some(Val(Val(seg).jwt).payload)
                 /\ Len(chain) > 1

\* C1 witness: an expired access token was turned away with 403
C1_Witness ==
    /\ chain = <<"authenticate">>
    /\ res.status = 403
    /\ IsSome(Bearer(req))
    /\ Val(Bearer(req)).kind = "jwt"
    /\ Val(Val(Bearer(req)).jwt).sig = <<JWT_SECRET, Val(Val(Bearer(req)).jwt).payload>>
    /\ now >= Val(Val(Bearer(req)).jwt).payload.exp

\* C2 (as claimed): the refresh token of the cookie, presented as the bearer
\* token, is answered 403 by the gate, with no identity attached and nothing
\* after the gate invoked, whatever the secrets are.
C2_RefreshTokenNeverAuthenticates ==
    (Invoked("authenticate") /\ IsSome(Bearer(req)) /\ Val(Bearer(req)) \in Cookie(req)) =>
        res.status = 403 /\ chain = <<"authenticate">> /\ req.user = None

\* C3 (as claimed): an access token in a response body carries the fields
\* id, email and is_admin (with the issue and expiry instants) and no other.
C3_AccessTokenHasThreeFields ==
    IsSome(res.body.accessToken) =>
        DOMAIN Val(res.body.accessToken).payload = {"id", "email", "is_admin", "iat", "exp"}

\* The name of the path parameter a route hands to requireOwnerOrAdmin
ParamName(r) == IF r.route = "/direct/:id" THEN "id" ELSE "userId"

IsAdmin(user) == IsSome(user) /\ Field(Val(user), "is_admin") = Some(TRUE)

IsOwner(r) ==
    /\ IsSome(r.user)
    /\ IsSome(Field(r.params, ParamName(r)))
    /\ Field(Val(r.user), "id") = Field(r.params, ParamName(r))

\* C4: requireOwnerOrAdmin(paramName) calls the next step iff an identity is
\* on the request and its id equals the path parameter or it is admin; an
\* identity that is neither gets 403, a request without identity 401, and
\* in both rejections nothing after the predicate runs.
C4_OwnerOrAdminDecides ==
    Invoked("requireOwnerOrAdmin") =>
        LET passed == Len(chain) > Position("requireOwnerOrAdmin")
        IN /\ passed <=> (IsSome(req.user) /\ (IsOwner(req) \/ IsAdmin(req.user)))
           /\ (IsSome(req.user) /\ ~IsOwner(req) /\ ~IsAdmin(req.user)) =>
                 res.status = 403 /\ Handler = "requireOwnerOrAdmin"
           /\ ~IsSome(req.user) =>
                 res.status = 401 /\ Handler = "requireOwnerOrAdmin"

\* C4 witness: on a progress route, a verified identity that is neither the
\* owner nor an admin was turned away with 403
C4_Witness ==
    /\ req.route = "/progress/:userId"
    /\ chain = <<"authenticate", "requireOwnerOrAdmin">>
    /\ IsSome(req.user)
    /\ ~IsOwner(req)
    /\ ~IsAdmin(req.user)
    /\ res.status = 403

AdminRoutes ==
    {<<"GET", "/auth/users">>, <<"DELETE", "/auth/user/:userId">>,
     <<"PUT", "/progress/:userId">>, <<"DELETE", "/progress/:userId">>}

AdminHandlers == {"getUsers", "deleteUser", "updateProgress", "deleteProgress"}

\* C5: requireAdmin calls the next step iff the identity on the request has
\* is_admin = true and answers 403 otherwise; the handlers of the admin-only
\* routes run only for requests whose verified claims have is_admin = true.
C5_AdminOnly ==
    /\ Invoked("requireAdmin") =>
          LET passed == Len(chain) > Position("requireAdmin")
          IN /\ passed <=> IsAdmin(req.user)
             /\ ~passed => res.status = 403 /\ Handler = "requireAdmin"
    /\ Handler \in AdminHandlers => <<req.method, req.route>> \in AdminRoutes
    /\ (<<req.method, req.route>> \in AdminRoutes /\ Handler \in AdminHandlers) =>
          /\ IsSome(Bearer(req))
          /\ Genuine(Val(Bearer(req)), JWT_SECRET)
          /\ Field(Val(Val(Bearer(req)).jwt).payload, "is_admin") = Some(TRUE)

\* C5 witness: a verified identity that is not admin asked to update
\* progress and was turned away with 403 before the handler
C5_Witness ==
    /\ <<req.method, req.route>> = <<"PUT", "/progress/:userId">>
    /\ chain = <<"authenticate", "requireAdmin">>
    /\ IsSome(req.user)
    /\ Field(Val(req.user), "is_admin") = Some(FALSE)
    /\ res.status = 403

\* The identities of the store that a valid refresh cookie of the request names
RefreshedIdentities(r, us) ==
    {u \in us : \E v \in Cookie(r) :
        Genuine(v, REFRESH_SECRET) /\ Val(v.jwt).payload.id = u.id}

\* The bearer token is an access token of this server that has expired
StaleBearer(r) ==
    /\ IsSome(Bearer(r))
    /\ Val(Bearer(r)).kind = "jwt"
    /\ Val(Val(Bearer(r)).jwt).sig = <<JWT_SECRET, Val(Val(Bearer(r)).jwt).payload>>
    /\ now >= Val(Val(Bearer(r)).jwt).payload.exp

\* C6 (as claimed): a request to the refresh endpoint that carries an
\* expired access token and a cookie with a valid refresh token of a stored
\* identity is answered 200 with a new access token for that identity.
C6_StaleClientCanRefresh ==
    (/\ <<req.method, req.route>> = <<"GET", "/auth/refresh-token">>
     /\ storeUp
     /\ StaleBearer(req)
     /\ RefreshedIdentities(req, users) # {}) =>
        /\ res.status = 200
        /\ IsSome(res.body.accessToken)
        /\ \E u \in RefreshedIdentities(req, users) :
              Val(res.body.accessToken).payload.id = u.id

\* C7: when the refresh handler runs on a valid refresh token, it answers
\* from the store as it is now: 200 with an access token whose is_admin is
\* the stored flag when the identity is stored, 401 without a token when it
\* is not.
C7_RefreshReadsTheStore ==
    (/\ Handler = "refreshToken"
     /\ storeUp
     /\ \E v \in Cookie(req) : Genuine(v, REFRESH_SECRET)) =>
        LET ids == {Val(v.jwt).payload.id : v \in {w \in Cookie(req) : Genuine(w, REFRESH_SECRET)}}
            stored == {u \in users : u.id \in ids}
        IN IF stored = {}
           THEN res.status = 401 /\ ~IsSome(res.body.accessToken)
           ELSE /\ res.status = 200
                /\ IsSome(res.body.accessToken)
                /\ \A u \in stored :
                      /\ Field(Val(res.body.accessToken).payload, "id") = Some(u.id)
                      /\ Field(Val(res.body.accessToken).payload, "is_admin") = Some(u.is_admin)

\* C7 witness: a refresh answered with a role that differs from the role in
\* the access token the request came with
C7_Witness ==
    /\ Handler = "refreshToken"
    /\ res.status = 200
    /\ IsSome(req.user)
    /\ Field(Val(req.user), "id") = Some(Val(res.body.accessToken).payload.id)
    /\ Field(Val(req.user), "is_admin") # Some(Val(res.body.accessToken).payload.is_admin)
    /\ IsSome(Field(Val(req.user), "is_admin"))

\* C8: with the store answering, register with the email of a stored
\* identity answers 409, changes nothing in the store, and hands out neither
\* token nor cookie; register with a new email and a password stores exactly
\* one identity, with that email, and answers 201 with an access token in
\* the body and the refresh cookie.
C8_RegisterConflictOrCreate ==
    [][(/\ chain' # <<>>
        /\ Last(chain') = "register"
        /\ req'.body.email # ""
        /\ req'.body.password # ""
        /\ storeUp') =>
           IF \E u \in users : u.email = req'.body.email
           THEN /\ res'.status = 409
                /\ users' = users
                /\ ~IsSome(res'.body.accessToken)
                /\ ~IsSome(res'.setCookie)
                /\ jar' = jar
                /\ accessToken' = accessToken
           ELSE /\ res'.status = 201
                /\ users \subseteq users'
                /\ Cardinality(users' \ users) = 1
                /\ \A u \in users' \ users : u.email = req'.body.email
                /\ IsSome(res'.body.accessToken)
                /\ IsSome(res'.setCookie)
                /\ Val(res'.setCookie).name = "refreshToken"
                /\ Val(res'.setCookie).value.kind = "jwt"]_vars

\* C8 witness: a register for a stored email was answered 409
C8_Witness ==
    /\ Handler = "register"
    /\ res.status = 409
    /\ \E u \in users : u.email = req.body.email

\* C9: a login (email and password given) for an email that is not stored
\* and a login with a wrong password for a stored email get one and the
\* same response: 401, the same body, no cookie, no token; the store and the
\* client's credentials are as before.
C9_LoginFailuresAreUniform ==
    [][(/\ chain' # <<>>
        /\ Last(chain') = "login"
        /\ req'.body.email # ""
        /\ req'.body.password # ""
        /\ \/ \A u \in users : u.email # req'.body.email
           \/ \E u \in users : u.email = req'.body.email
                               /\ u.password # hash(req'.body.password)) =>
           /\ res' = Response(401, "Invalid email or password")
           /\ users' = users
           /\ jar' = jar
           /\ accessToken' = accessToken]_vars

\* C9 witness: a login with a wrong password for a stored email was answered
C9_Witness ==
    /\ Handler = "login"
    /\ storeUp
    /\ res.status = 401
    /\ \E u \in users : u.email = req.body.email /\ u.password # hash(req.body.password)

\* C10: the jar never holds more than one cookie; a login or register
\* answered 200 or 201 leaves in it exactly the refresh token issued by that
\* response, for the identity of that email; a logout leaves it empty; every
\* other step (refresh, failed login or register, any other response) leaves
\* it as it was.
C10_OneRefreshCookie ==
    [][LET h == IF chain' = <<>> THEN "" ELSE Last(chain')
           issued == h \in {"login", "register"} /\ res'.status \in {200, 201}
       IN /\ Cardinality(jar') <= 1
          /\ issued =>
                \E c \in jar' :
                    /\ jar' = {c}
                    /\ c.name = "refreshToken"
                    /\ Some(c.value) = Field(Val(res'.setCookie), "value")
                    /\ c.value.kind = "jwt"
                    /\ Val(c.value.jwt).payload.iat = now
                    /\ Val(c.value.jwt).sig = <<REFRESH_SECRET, Val(c.value.jwt).payload>>
                    /\ \E u \in users' : u.email = req'.body.email
                                         /\ u.id = Val(c.value.jwt).payload.id
          /\ h = "logout" => jar' = {}
          /\ (~issued /\ h # "logout") => jar' = jar]_vars

\* C10 witness: a logout emptied a jar that held a refresh cookie
C10_Witness ==
    /\ Handler = "logout"
    /\ req.cookie # {}
    /\ jar = {}

\* The token is one generateAccessToken hands out, issued at its iat
IssuedAccess(tok) ==
    tok = generateAccessToken([f \in DOMAIN tok.payload \ {"iat", "exp"} |-> tok.payload[f]],
                              tok.payload.iat)

\* The token is one generateRefreshToken hands out, issued at its iat
IssuedRefresh(tok) ==
    /\ DOMAIN tok.payload = {"id", "iat", "exp"}
    /\ tok = generateRefreshToken([id |-> tok.payload.id], tok.payload.iat)

\* C11: a logout answers 200 and changes nothing but the client's cookie
\* (identities, progress, secrets and the access token held are as before).
\* After a logout, a copy of an access token issued before it still passes
\* the gate while it is younger than 15 minutes, and a copy of a refresh
\* token issued before it is still verified by the refresh handler while it
\* is younger than 7 days: the handler does not answer 403, and answers 200
\* with a new access token for the identity when the identity is stored.
C11_LogoutRevokesNothing ==
    [][LET h == IF chain' = <<>> THEN "" ELSE Last(chain')
           bearer == Bearer(req')
           copies == {v \in Cookie(req') : v.kind = "jwt" /\ Val(v.jwt) \in kept
                                            /\ IssuedRefresh(Val(v.jwt))
                                            /\ now < Val(v.jwt).payload.iat + RefreshTTL}
       IN /\ h = "logout" =>
                /\ res'.status = 200
                /\ jar' = {}
                /\ <<env', users', nextId', progress', accessToken', kept'>>
                      = <<env, users, nextId, progress, accessToken, kept>>
          /\ (kept # {} /\ jar = {} /\ req'.route = "/auth/refresh-token") =>
                /\ (/\ IsSome(bearer)
                    /\ Val(bearer).kind = "jwt"
                    /\ Val(Val(bearer).jwt) \in kept
                    /\ IssuedAccess(Val(Val(bearer).jwt))
                    /\ now < Val(Val(bearer).jwt).payload.iat + AccessTTL) =>
                       /\ Len(chain') > 1
                       /\ req'.user = Some(Val(Val(bearer).jwt).payload)
                /\ (h = "refreshToken" /\ copies # {}) =>
                       /\ res'.status # 403
                       /\ \A v \in copies :
                             (storeUp' /\ \E u \in users : u.id = Val(v.jwt).payload.id) =>
                                 /\ res'.status = 200
                                 /\ IsSome(res'.body.accessToken)
                                 /\ Val(res'.body.accessToken).payload.id = Val(v.jwt).payload.id]_vars

\* C11 witness: after a logout emptied the jar, a copy of the refresh token
\* was presented to the refresh handler and answered 200 with an access token
C11_Witness ==
    /\ Handler = "refreshToken"
    /\ jar = {}
    /\ kept # {}
    /\ \E v \in Cookie(req) : v.kind = "jwt" /\ Val(v.jwt) \in kept /\ IssuedRefresh(Val(v.jwt))
    /\ res.status = 200
    /\ IsSome(res.body.accessToken)

\* C12: the gate lets a request with an access token issued at t through
\* at every instant before t + 15 minutes and answers 403 from t + 15
\* minutes on; the refresh handler verifies a refresh token issued at t at
\* every instant before t + 7 days and answers 403 from t + 7 days on.
C12_AcceptanceIsTimeBounded ==
    /\ (/\ Invoked("authenticate")
        /\ IsSome(Bearer(req))
        /\ Val(Bearer(req)).kind = "jwt"
        /\ IssuedAccess(Val(Val(Bearer(req)).jwt))) =>
           LET t == Val(Val(Bearer(req)).jwt).payload.iat
           IN IF now < t + AccessTTL
              THEN Len(chain) > 1 /\ req.user = Some(Val(Val(Bearer(req)).jwt).payload)
              ELSE chain = <<"authenticate">> /\ res.status = 403
    /\ Handler = "refreshToken" =>
           \A v \in Cookie(req) :
               (v.kind = "jwt" /\ IssuedRefresh(Val(v.jwt))) =>
                   (res.status = 403 <=> now >= Val(v.jwt).payload.iat + RefreshTTL)

\* C12 witness: the refresh handler answered 403 to a refresh token that had
\* reached the age of 7 days
C12_Witness ==
    /\ Handler = "refreshToken"
    /\ res.status = 403
    /\ \E v \in Cookie(req) :
          /\ v.kind = "jwt"
          /\ IssuedRefresh(Val(v.jwt))
          /\ now >= Val(v.jwt).payload.iat + RefreshTTL

\* C13 (as claimed): when the deleteUser handler runs for DELETE
\* /auth/user/:userId (the caller is a verified admin), the store answers
\* and the userId path parameter is the id of a stored identity, exactly
\* that identity is removed from the store and the answer is 200 with the
\* deleted user.
C13_DeleteUserDeletesTheTarget ==
    [][(/\ chain' # <<>>
        /\ Last(chain') = "deleteUser"
        /\ <<req'.method, req'.route>> = <<"DELETE", "/auth/user/:userId">>
        /\ storeUp'
        /\ \E u \in users : Some(u.id) = Field(req'.params, "userId")) =>
           LET target == CHOOSE u \in users : Some(u.id) = Field(req'.params, "userId")
           IN /\ users' = users \ {target}
              /\ res'.status = 200
              /\ res'.body.user = Some(target)]_vars

\* C14 (as claimed): whatever the interleaving of register calls (the store
\* answering every one of them), no two stored identities have the same
\* email, and of the register calls for one email at most one is answered
\* 201.
C14_ConcurrentRegisterKeepsEmailsUnique ==
    (\A c \in calls : c.up) =>
        /\ \A u, w \in users : u.email = w.email => u = w
        /\ \A e \in Emails :
              Cardinality({c \in calls : /\ c.handler = "register"
                                         /\ c.body.email = e
                                         /\ c.res.status = 201}) <= 1

\* C15 (as claimed): when no createProgress or updateProgress call is in
\* flight (the store having answered every call, and holding one row per
\* user), every stored progress row has
\* progress_vector = [current_level, level_xp, streak, xp].
C15_VectorMatchesScalars ==
    (/\ \A c \in calls : c.handler \in {"createProgress", "updateProgress"} =>
                              c.at = "done" /\ c.up
     /\ \A p, q \in progress : p.user_id = q.user_id => p = q) =>
        \A p \in progress :
            p.progress_vector = <<p.current_level, p.level_xp, p.streak, p.xp>>

====
